---- MODULE Spec2Model ----
(***************************************************************************)
(* Lenstra elliptic-curve factorization (lenstra.py): the Weierstrass      *)
(* curve, the Point group law, Point.__mul__, Point.lenstra and the        *)
(* run_lenstra retry loop, as state machines.                              *)
(*                                                                         *)
(* A Point is a record [x, y, inf, curve]; inf stands for y = math.inf     *)
(* (y is then kept at 0 and never read).  An optional int (int | None) is  *)
(* a set: {} is None and {f} is the value f.                               *)
(***************************************************************************)
EXTENDS Integers, FiniteSets

\* ------------------------------------------------------------- bounds
\* run_lenstra is explored for every n in 1..MaxN
MaxN == 25
\* the pure group law and Point.__mul__ are explored for every modulus 2..MaxP
MaxP == 11
\* Point.__mul__ is explored for every scalar 1..MaxScalar
MaxScalar == 9
\* module parameters of lenstra.py ("adjust if too slow"), shrunk for the search
max_iterations == 3
max_factor == 5

\* ------------------------------------------------------- integer helpers
\* Python's a % m: the sign of the result follows the modulus m (m # 0)
PyMod(a, m) == IF m > 0 THEN a % m ELSE 0 - ((0 - a) % (0 - m))

RECURSIVE gcd(_, _)
\* math.gcd on integers (Euclid on absolute values)
gcd(u, v) ==
    LET au == IF u < 0 THEN 0 - u ELSE u
        av == IF v < 0 THEN 0 - v ELSE v
    IN  IF av = 0 THEN au ELSE gcd(av, au % av)

RECURSIVE isqrt(_)
\* math.isqrt: the largest r with r * r <= m
isqrt(m) == IF m < 1 THEN 0
            ELSE LET r == isqrt(m - 1) IN IF (r + 1) * (r + 1) <= m THEN r + 1 ELSE r

RECURSIVE bit_length(_)
\* int.bit_length of a non-negative integer
bit_length(m) == IF m = 0 THEN 0 ELSE 1 + bit_length(m \div 2)

RECURSIVE Pow2(_)
Pow2(e) == IF e = 0 THEN 1 ELSE 2 * Pow2(e - 1)

\* scalar >> (position - 1) & 0b1
BitAt(scalar, position) == (scalar \div Pow2(position - 1)) % 2

\* the inverses pow(d, -1, p) can return: v in [0, p) with d * v = 1 (mod p)
Inverses(d, p) == {v \in 0..(p - 1) : (PyMod(d, p) * v) % p = 1 % p}

\* pow(d, -1, p) raises ValueError when d has no inverse modulo p
PowInvRaisesOffByOne(d, p) == {v \in Inverses(d, p) : v < p - 1} = {}
PowInvRaises(d, p) == Inverses(d, p) = {}

\* pow(d, -1, p) when it does not raise
PowInv(d, p) == CHOOSE v \in Inverses(d, p) : TRUE

\* ------------------------------------------------------- WeierStrassEC
\* the test of WeierStrassEC.__init__ that raises InvalidCurve
InvalidCurve(a, b, p) == (4 * a * a * a + 27 * b * b) % p = 0

WeierStrassEC(a, b, p) == [a |-> a, b |-> b, p |-> p]

\* ---------------------------------------------------------------- Point
Point(x, y, ecc) == [x |-> x % ecc.p, y |-> y % ecc.p, inf |-> FALSE, curve |-> ecc]

\* Point(x, math.inf, ecc)
PointInf(x, ecc) == [x |-> x % ecc.p, y |-> 0, inf |-> TRUE, curve |-> ecc]

is_infinite(pt) == pt.inf

\* Point.__eq__: x == x and y == y, where inf == inf and inf differs from every int
__eq__(self, other) ==
    /\ self.x = other.x
    /\ self.inf = other.inf
    /\ (self.inf \/ self.y = other.y)

\* the denominator get_slope inverts: 2y for a doubling, x_Q - x_P for an addition
Denominator(self, other) ==
    IF __eq__(self, other) THEN 2 * self.y ELSE other.x - self.x

\* get_slope raises ZeroDivisionError (the numerator's modulus p * denominator is 0)
\* or ValueError (pow finds no inverse)
SlopeRaises(self, other) ==
    LET p == self.curve.p
        denominator == Denominator(self, other)
    IN  p * denominator = 0 \/ PowInvRaises(denominator, p)

\* Point.get_slope when it does not raise
get_slope(self, other) ==
    LET p == self.curve.p
        denominator == Denominator(self, other)
        numerator == IF __eq__(self, other)
                     THEN PyMod(3 * self.x * self.x + self.curve.a, p * denominator)
                     ELSE PyMod(other.y - self.y, p * denominator)
    IN  (numerator * PowInv(denominator, p)) % p

\* Point.__add__ with x computed by the doubling formula for every pair
AddDoublingX(self, other) ==
    LET curve == self.curve IN
    IF curve # other.curve THEN [raised |-> "Exception"]
    ELSE IF is_infinite(self) THEN PointInf(self.x, curve)
    ELSE IF is_infinite(other) THEN PointInf(other.x, curve)
    ELSE IF SlopeRaises(self, other) THEN PointInf(other.x, curve)
    ELSE LET s == get_slope(self, other)
             x == (s * s - self.x - self.x) % curve.p
             y == (s * (self.x - x) - self.y) % curve.p
         IN  Point(x, y, curve)

\* Point.__add__
__add__(self, other) ==
    LET curve == self.curve IN
    IF curve # other.curve THEN [raised |-> "Exception"]
    ELSE IF is_infinite(self) THEN PointInf(self.x, curve)
    ELSE IF is_infinite(other) THEN PointInf(other.x, curve)
    ELSE IF SlopeRaises(self, other) THEN PointInf(other.x, curve)
    ELSE LET s == get_slope(self, other)
             x == (s * s - self.x - other.x) % curve.p
             y == (s * (self.x - x) - self.y) % curve.p
         IN  Point(x, y, curve)

\* y^2 = x^3 + a x + b (mod p): the affine point lies on its curve
OnCurve(pt) ==
    LET c == pt.curve
    IN  (pt.y * pt.y) % c.p = (pt.x * pt.x * pt.x + c.a * pt.x + c.b) % c.p

\* ----------------------------------------------------------------- state
VARIABLES
    pc,             \* position of the running routine
    n,              \* run_lenstra: the number to factor
    i,              \* run_lenstra: the for-loop counter
    curve,          \* run_lenstra: elliptic_curve of the current attempt
    self,           \* the start point (run_lenstra: start_point; __mul__: self)
    point,          \* Point.lenstra: the point accumulated so far
    next_point,     \* Point.lenstra: the result of the latest group operation
    factorial,      \* Point.lenstra: the next value of the for loop over range(2, max_factor)
    position,       \* lenstra_mul / __mul__: the bit position of the double-and-add loop
    result,         \* run_lenstra: the returned value once pc = "done"
    sampled,        \* history: number of (x, y, a) triples drawn so far
    rejected,       \* history: number of attempts that raised InvalidCurve
    searches,       \* history: number of start_point.lenstra() calls
    group_law_used, \* history: some Point.__add__ has been evaluated
    shortcut,       \* history: run_lenstra returned at the even-number filter
    attempt,        \* history: the latest sampled (a, b) and whether the curve was accepted
    failure,        \* history: the failing inversion of the current search, if any
    scalar,         \* Point.__mul__: the scalar
    res,            \* Point.__mul__: the accumulator
    mul_failures,   \* history: the denominators whose inversion failed in this __mul__
    P, Q,           \* group law: the two operands
    PQ, QP          \* group law: P + Q and Q + P once computed

vars == <<pc, n, i, curve, self, point, next_point, factorial, position, result,
          sampled, rejected, searches, group_law_used, shortcut, attempt, failure,
          scalar, res, mul_failures, P, Q, PQ, QP>>

lenstra_vars == <<n, i, curve, point, next_point, factorial, result, sampled,
                  rejected, searches, group_law_used, shortcut, attempt, failure>>
mul_vars == <<scalar, res, mul_failures>>
add_vars == <<P, Q, PQ, QP>>

\* a name not bound yet
Unset == [unset |-> TRUE]
NoFailure == [kind |-> "none", d |-> 0, ret |-> {}]

\* ------------------------------------------------------------ run_lenstra
\* (n - 1) & 0b1: the even-number filter of run_lenstra, for n >= 1
EvenFilterNoDecrement(m) == m % 2 = 1
EvenFilter(m) == (m - 1) % 2 = 1

\* `if factor := ...`: an int | None is truthy when it is a non-zero int
Truthy(ret) == \E f \in ret : f # 0

\* factor = math.gcd((point.x - next_point.x) % p, p); return factor if p > factor > 1 else None
LenstraFactor(pt, np) ==
    LET p == pt.curve.p
        factor == gcd((pt.x - np.x) % p, p)
    IN  IF p > factor /\ factor > 1 THEN {factor} ELSE {}

\* what run_lenstra does with the value ret returned by start_point.lenstra()
AfterLenstra(ret) ==
    IF Truthy(ret)
    THEN /\ result' = ret
         /\ pc' = "done"
         /\ i' = i
    ELSE /\ result' = result
         /\ pc' = "loop"
         /\ i' = i + 1

InitLenstra ==
    /\ n \in 1..MaxN
    /\ pc = "start"
    /\ i = 0
    /\ curve = Unset /\ self = Unset /\ point = Unset /\ next_point = Unset
    /\ factorial = 0 /\ position = 0
    /\ result = {}
    /\ sampled = 0 /\ rejected = 0 /\ searches = 0
    /\ group_law_used = FALSE /\ shortcut = FALSE
    /\ attempt = Unset
    /\ failure = NoFailure
    /\ scalar = 0 /\ res = Unset /\ mul_failures = {}
    /\ P = Unset /\ Q = Unset /\ PQ = Unset /\ QP = Unset

\* if (n - 1) & 0b1: return 2
EvenShortcut ==
    /\ pc = "start"
    /\ EvenFilter(n)
    /\ result' = {2}
    /\ shortcut' = TRUE
    /\ pc' = "done"
    /\ UNCHANGED <<n, i, curve, self, point, next_point, factorial, position, sampled,
                   rejected, searches, group_law_used, attempt, failure>>
    /\ UNCHANGED mul_vars /\ UNCHANGED add_vars

\* odd n: enter `for i in range(max_iterations)`
EnterLoop ==
    /\ pc = "start"
    /\ ~EvenFilter(n)
    /\ i' = 0
    /\ pc' = "loop"
    /\ UNCHANGED <<n, curve, self, point, next_point, factorial, position, result, sampled,
                   rejected, searches, group_law_used, shortcut, attempt, failure>>
    /\ UNCHANGED mul_vars /\ UNCHANGED add_vars

\* b = (pow(y, 2) - pow(x, 3) - a * x) % n
SampleB(x, y, a) == PyMod(y * y - x * x * x - a * x, n)

\* the samples random.randint(0, math.isqrt(n)) can return
Samples == 0..isqrt(n)

\* one attempt whose sampled curve is rejected: continue without searching
SampleInvalidNoCount ==
    /\ pc = "loop"
    /\ i < max_iterations
    /\ \E x \in Samples, y \in Samples, a \in Samples :
          LET b == SampleB(x, y, a) IN
          /\ InvalidCurve(a, b, n)
          /\ attempt' = [a |-> a, b |-> b, accepted |-> FALSE]
    /\ i' = i
    /\ sampled' = sampled + 1
    /\ rejected' = rejected + 1
    /\ UNCHANGED <<pc, n, curve, self, point, next_point, factorial, position, result,
                   searches, group_law_used, shortcut, failure>>
    /\ UNCHANGED mul_vars /\ UNCHANGED add_vars

SampleInvalid ==
    /\ pc = "loop"
    /\ i < max_iterations
    /\ \E x \in Samples, y \in Samples, a \in Samples :
          LET b == SampleB(x, y, a) IN
          /\ InvalidCurve(a, b, n)
          /\ attempt' = [a |-> a, b |-> b, accepted |-> FALSE]
    /\ i' = i + 1
    /\ sampled' = sampled + 1
    /\ rejected' = rejected + 1
    /\ UNCHANGED <<pc, n, curve, self, point, next_point, factorial, position, result,
                   searches, group_law_used, shortcut, failure>>
    /\ UNCHANGED mul_vars /\ UNCHANGED add_vars

\* one attempt whose curve is accepted: start_point.lenstra() begins
SampleValid ==
    /\ pc = "loop"
    /\ i < max_iterations
    /\ \E x \in Samples, y \in Samples, a \in Samples :
          LET b == SampleB(x, y, a)
              elliptic_curve == WeierStrassEC(a, b, n)
              start_point == Point(x, y, elliptic_curve)
          IN
          /\ ~InvalidCurve(a, b, n)
          /\ attempt' = [a |-> a, b |-> b, accepted |-> TRUE]
          /\ curve' = elliptic_curve
          /\ self' = start_point
          /\ point' = start_point
          /\ next_point' = start_point
    /\ factorial' = 2
    /\ failure' = NoFailure
    /\ sampled' = sampled + 1
    /\ searches' = searches + 1
    /\ pc' = "factorial"
    /\ UNCHANGED <<n, i, position, result, rejected, group_law_used, shortcut>>
    /\ UNCHANGED mul_vars /\ UNCHANGED add_vars

\* the for loop is exhausted: run_lenstra falls off its end and returns None
LoopEnd ==
    /\ pc = "loop"
    /\ i >= max_iterations
    /\ result' = {}
    /\ pc' = "done"
    /\ UNCHANGED <<n, i, curve, self, point, next_point, factorial, position, sampled,
                   rejected, searches, group_law_used, shortcut, attempt, failure>>
    /\ UNCHANGED mul_vars /\ UNCHANGED add_vars

\* ----------------------------------------------------------- Point.lenstra
\* `for factorial in range(2, max_factor)`: lenstra_mul(factorial) begins
FactorialNext ==
    /\ pc = "factorial"
    /\ factorial < max_factor
    /\ position' = bit_length(factorial) - 1
    /\ IF bit_length(factorial) - 1 >= 1
       THEN pc' = "double" /\ factorial' = factorial
       ELSE pc' = "factorial" /\ factorial' = factorial + 1
    /\ UNCHANGED <<n, i, curve, self, point, next_point, result, sampled, rejected,
                   searches, group_law_used, shortcut, attempt, failure>>
    /\ UNCHANGED mul_vars /\ UNCHANGED add_vars

\* the range is exhausted: lenstra returns None
FactorialEnd ==
    /\ pc = "factorial"
    /\ factorial >= max_factor
    /\ AfterLenstra({})
    /\ UNCHANGED <<n, curve, self, point, next_point, factorial, position, sampled,
                   rejected, searches, group_law_used, shortcut, attempt, failure>>
    /\ UNCHANGED mul_vars /\ UNCHANGED add_vars

\* the end of one pass of lenstra_mul's loop over the bit positions
StepOn ==
    IF position - 1 >= 1
    THEN /\ position' = position - 1
         /\ factorial' = factorial
         /\ pc' = "double"
    ELSE /\ position' = position - 1
         /\ factorial' = factorial + 1
         /\ pc' = "factorial"

\* lenstra_mul, double: (next_point := point + point) is infinite, so lenstra_mul
\* returns True and lenstra returns the factor or None
DoubleInf ==
    /\ pc = "double"
    /\ LET np == __add__(point, point)
           ret == LenstraFactor(point, np)
       IN  /\ is_infinite(np)
           /\ next_point' = np
           /\ failure' = [kind |-> "double", d |-> Denominator(point, point), ret |-> ret]
           /\ AfterLenstra(ret)
    /\ group_law_used' = TRUE
    /\ UNCHANGED <<n, curve, self, point, factorial, position, sampled, rejected,
                   searches, shortcut, attempt>>
    /\ UNCHANGED mul_vars /\ UNCHANGED add_vars

\* lenstra_mul, double: the doubled point is affine
DoubleOk ==
    /\ pc = "double"
    /\ LET np == __add__(point, point)
       IN  /\ ~is_infinite(np)
           /\ next_point' = np
           /\ point' = np
    /\ IF BitAt(factorial, position) = 1
       THEN pc' = "add" /\ UNCHANGED <<factorial, position>>
       ELSE StepOn
    /\ group_law_used' = TRUE
    /\ UNCHANGED <<n, i, curve, self, result, sampled, rejected, searches, shortcut,
                   attempt, failure>>
    /\ UNCHANGED mul_vars /\ UNCHANGED add_vars

\* lenstra_mul, add: (next_point := point + self) is infinite
AddInf ==
    /\ pc = "add"
    /\ LET np == __add__(point, self)
           ret == LenstraFactor(point, np)
       IN  /\ is_infinite(np)
           /\ next_point' = np
           /\ failure' = [kind |-> "add", d |-> Denominator(point, self), ret |-> ret]
           /\ AfterLenstra(ret)
    /\ UNCHANGED <<n, curve, self, point, factorial, position, sampled, rejected,
                   searches, group_law_used, shortcut, attempt>>
    /\ UNCHANGED mul_vars /\ UNCHANGED add_vars

\* lenstra_mul, add: the sum is affine
AddOk ==
    /\ pc = "add"
    /\ LET np == __add__(point, self)
       IN  /\ ~is_infinite(np)
           /\ next_point' = np
           /\ point' = np
    /\ StepOn
    /\ UNCHANGED <<n, i, curve, self, result, sampled, rejected, searches,
                   group_law_used, shortcut, attempt, failure>>
    /\ UNCHANGED mul_vars /\ UNCHANGED add_vars

Next ==
    \/ EvenShortcut
    \/ EnterLoop
    \/ SampleInvalid
    \/ SampleValid
    \/ LoopEnd
    \/ FactorialNext
    \/ FactorialEnd
    \/ DoubleInf
    \/ DoubleOk
    \/ AddInf
    \/ AddOk

Spec == InitLenstra /\ [][Next]_vars

\* --------------------------------------------- the group law on its own
\* the curves WeierStrassEC accepts over the modulus p, with a, b reduced
Curves(p) == {WeierStrassEC(a, b, p) : a \in 0..(p - 1), b \in 0..(p - 1)}
ValidCurves(p) == {c \in Curves(p) : ~InvalidCurve(c.a, c.b, c.p)}

\* the affine points of a curve and its points at infinity Point(x, math.inf, c)
AffinePoints(c) ==
    {pt \in {Point(x, y, c) : x \in 0..(c.p - 1), y \in 0..(c.p - 1)} : OnCurve(pt)}
InfinitePoints(c) == {PointInf(x, c) : x \in 0..(c.p - 1)}

InitAdd ==
    /\ pc = "operands"
    /\ \E p \in 2..MaxP : \E c \in ValidCurves(p) :
          /\ P \in AffinePoints(c) \cup InfinitePoints(c)
          /\ Q \in AffinePoints(c) \cup InfinitePoints(c)
    /\ PQ = Unset /\ QP = Unset
    /\ n = 0 /\ i = 0
    /\ curve = Unset /\ self = Unset /\ point = Unset /\ next_point = Unset
    /\ factorial = 0 /\ position = 0
    /\ result = {}
    /\ sampled = 0 /\ rejected = 0 /\ searches = 0
    /\ group_law_used = FALSE /\ shortcut = FALSE
    /\ attempt = Unset
    /\ failure = NoFailure
    /\ scalar = 0 /\ res = Unset /\ mul_failures = {}

\* P + Q and Q + P
AddBoth ==
    /\ pc = "operands"
    /\ PQ' = __add__(P, Q)
    /\ QP' = __add__(Q, P)
    /\ pc' = "added"
    /\ UNCHANGED <<P, Q, self, position>>
    /\ UNCHANGED lenstra_vars /\ UNCHANGED mul_vars

NextAdd == AddBoth

SpecAdd == InitAdd /\ [][NextAdd]_vars

\* ------------------------------------------------------------ Point.__mul__
InitMul ==
    /\ pc = "mul"
    /\ \E p \in 2..MaxP : \E c \in ValidCurves(p) : self \in AffinePoints(c)
    /\ scalar \in 1..MaxScalar
    /\ res = Unset
    /\ position = 0
    /\ mul_failures = {}
    /\ P = Unset /\ Q = Unset /\ PQ = Unset /\ QP = Unset
    /\ n = 0 /\ i = 0
    /\ curve = Unset /\ point = Unset /\ next_point = Unset
    /\ factorial = 0
    /\ result = {}
    /\ sampled = 0 /\ rejected = 0 /\ searches = 0
    /\ group_law_used = FALSE /\ shortcut = FALSE
    /\ attempt = Unset
    /\ failure = NoFailure

\* the denominators whose inversion fails when l + r is evaluated: get_slope is
\* reached, and raises, only for two affine operands
FailedInversion(l, r) ==
    IF ~is_infinite(l) /\ ~is_infinite(r) /\ SlopeRaises(l, r)
    THEN {Denominator(l, r)}
    ELSE {}

\* the end of one pass of __mul__'s loop over the bit positions
MulStepOn ==
    /\ position' = position - 1
    /\ pc' = IF position - 1 >= 1 THEN "mul_double" ELSE "mul_done"

\* res = self; the loop over range(scalar.bit_length() - 1, 0, -1) begins
MulStart ==
    /\ pc = "mul"
    /\ res' = self
    /\ position' = bit_length(scalar) - 1
    /\ pc' = IF bit_length(scalar) - 1 >= 1 THEN "mul_double" ELSE "mul_done"
    /\ UNCHANGED <<self, scalar, mul_failures>>
    /\ UNCHANGED lenstra_vars /\ UNCHANGED add_vars

\* res += res
MulDouble ==
    /\ pc = "mul_double"
    /\ res' = __add__(res, res)
    /\ mul_failures' = mul_failures \cup FailedInversion(res, res)
    /\ IF BitAt(scalar, position) = 1
       THEN pc' = "mul_add" /\ position' = position
       ELSE MulStepOn
    /\ UNCHANGED <<self, scalar>>
    /\ UNCHANGED lenstra_vars /\ UNCHANGED add_vars

\* if bit: res += self
MulAdd ==
    /\ pc = "mul_add"
    /\ res' = __add__(res, self)
    /\ mul_failures' = mul_failures \cup FailedInversion(res, self)
    /\ MulStepOn
    /\ UNCHANGED <<self, scalar>>
    /\ UNCHANGED lenstra_vars /\ UNCHANGED add_vars

NextMul ==
    \/ MulStart
    \/ MulDouble
    \/ MulAdd

SpecMul == InitMul /\ [][NextMul]_vars

\* ---------------------------------------------------------------- claims
IsPrime(m) == m > 1 /\ \A d \in 2..(m - 1) : m % d # 0

RECURSIVE Fact(_)
Fact(k) == IF k <= 1 THEN 1 ELSE k * Fact(k - 1)

RECURSIVE Times(_, _)
\* m * P: P added to itself m times under the group law, (m - 1) * P + P
Times(pt, m) == IF m <= 1 THEN pt ELSE __add__(Times(pt, m - 1), pt)

\* C1: every non-None value f returned by run_lenstra(n) satisfies 1 < f < n and
\* f divides n, on the even shortcut as on the elliptic-curve path.
C1_FactorIsProper ==
    pc = "done" => \A f \in result : 1 < f /\ f < n /\ n % f = 0

\* C2: for every prime n, run_lenstra(n) returns None.
C2_PrimeReturnsNone ==
    (pc = "done" /\ IsPrime(n)) => result = {}

\* C3: for even n run_lenstra returns 2 with nothing sampled, no curve constructed
\* and no group-law operation performed; for odd n the shortcut is not taken.
C3_EvenShortcutOnly ==
    /\ n % 2 = 0 =>
          /\ pc \in {"start", "done"}
          /\ pc = "done" => (result = {2} /\ shortcut)
          /\ sampled = 0 /\ curve = Unset /\ self = Unset /\ attempt = Unset
          /\ ~group_law_used
    /\ n % 2 = 1 => (~shortcut /\ (pc = "done" => sampled > 0))

C3_Witness ==
    /\ pc = "done" /\ n % 2 = 0 /\ n > 2
    /\ result = {2} /\ shortcut /\ sampled = 0 /\ ~group_law_used

\* C8: in Point.lenstra, once step k (2 <= k < max_factor) has completed without
\* an inversion failure, the accumulated point equals k! * P (whenever k! * P,
\* as a repeated sum, is itself an affine point).
C8_AccumulatesFactorial ==
    (/\ pc = "factorial"
     /\ factorial > 2
     /\ ~is_infinite(Times(self, Fact(factorial - 1))))
    => __eq__(point, Times(self, Fact(factorial - 1)))

\* C9: when the failing inversion of a search has a denominator d with
\* 1 < gcd(d, n) < n, the search returns exactly gcd(d, n) (and so returns None
\* after a failure only if gcd(d, n) is 1 or n).
C9_FailureGivesGcd ==
    failure.kind # "none" =>
        LET g == gcd(failure.d, n)
        IN  (1 < g /\ g < n) => failure.ret = {g}

\* C10: for odd n at most max_iterations attempts are made; each is either
\* rejected (exactly when (4a^3 + 27b^2) mod n = 0, and then no search runs) or
\* searched, and each consumes one iteration; a factor ends the run at once, and
\* a run without a factor ends with None after exactly max_iterations attempts.
C10_AttemptBudget ==
    n % 2 = 1 =>
        /\ sampled <= max_iterations
        /\ sampled = rejected + searches
        /\ pc = "loop" => sampled = i
        /\ pc \in {"factorial", "double", "add"} => sampled = i + 1
        /\ attempt # Unset =>
              (attempt.accepted <=>
                  (4 * attempt.a * attempt.a * attempt.a
                     + 27 * attempt.b * attempt.b) % n # 0)
        /\ (pc = "loop" /\ attempt # Unset /\ ~attempt.accepted /\ searches > 0) =>
              curve # WeierStrassEC(attempt.a, attempt.b, n)
        /\ (pc = "done" /\ result # {}) =>
              (sampled = i + 1 /\ attempt.accepted /\ failure.ret = result)
        /\ (pc = "done" /\ result = {}) => sampled = max_iterations
        /\ pc = "done" => ~ENABLED Next

C10_Witness ==
    /\ pc = "done" /\ n % 2 = 1
    /\ result # {}
    /\ rejected > 0
    /\ sampled = max_iterations

\* C4: the point at infinity is the identity of __add__: P + O == P and O + P == P.
C4_InfinityIsIdentity ==
    (pc = "added" /\ is_infinite(Q)) => (__eq__(PQ, P) /\ __eq__(QP, P))

\* C5: P + Q == Q + P for affine P, Q on a non-degenerate curve whenever the slope
\* inversion succeeds in both sums.
C5_Commutative ==
    (/\ pc = "added"
     /\ ~is_infinite(P) /\ ~is_infinite(Q)
     /\ OnCurve(P) /\ OnCurve(Q)
     /\ ~SlopeRaises(P, Q) /\ ~SlopeRaises(Q, P))
    => (PQ.x = QP.x /\ PQ.y = QP.y /\ __eq__(PQ, QP))

C5_Witness ==
    /\ pc = "added"
    /\ ~is_infinite(P) /\ ~is_infinite(Q)
    /\ P.x # Q.x
    /\ ~IsPrime(P.curve.p)
    /\ ~SlopeRaises(P, Q) /\ ~SlopeRaises(Q, P)
    /\ ~is_infinite(PQ) /\ __eq__(PQ, QP) /\ ~__eq__(PQ, P)

\* C7: any two infinite points compare equal whatever x each carries, the infinite
\* points produced by __add__ included.
C7_InfinitePointsEqual ==
    pc = "added" =>
        \A u \in {P, Q, PQ, QP} : \A v \in {P, Q, PQ, QP} :
            (is_infinite(u) /\ is_infinite(v)) => __eq__(u, v)

\* C6: over a prime modulus no inversion fails during P * k, and the result is an
\* affine point.
C6_NoInversionFails ==
    IsPrime(self.curve.p) =>
        /\ mul_failures = {}
        /\ pc = "mul_done" => ~is_infinite(res)

\* C6, amended: over a prime modulus p an inversion during P * k fails only on a
\* denominator that is 0 modulo p, and the result is an affine point unless such
\* an inversion failed.
C6_FailsOnlyOnZero ==
    IsPrime(self.curve.p) =>
        /\ \A d \in mul_failures : d % self.curve.p = 0
        /\ pc = "mul_done" => (is_infinite(res) <=> mul_failures # {})

C6_Witness ==
    /\ pc = "mul_done"
    /\ IsPrime(self.curve.p) /\ self.curve.p > 3
    /\ self.y # 0
    /\ mul_failures # {}
    /\ is_infinite(res)

====
